---- MODULE Spec2Model ----
(***************************************************************************)
(* Model of pkg/scraper/config.go: loading a scraper definition from YAML, *)
(* binding each operation's action to its handler, projecting the          *)
(* capability descriptor and dispatching scrape requests.                  *)
(*                                                                         *)
(* Strings that the code inspects (paths, URLs) are sequences of one-      *)
(* character strings; a Go pointer is a sequence of length 0 (nil) or 1.   *)
(***************************************************************************)
EXTENDS Integers, Sequences, FiniteSets, TLC

VARIABLES source, status, loadErr, def, call

vars == <<source, status, loadErr, def, call>>

(***************************************************************************)
(* Bounds of the model.                                                    *)
(***************************************************************************)
\* operation configs (single blocks and URL rules together) in one definition
MaxOps == 2
\* characters in a source path
MaxPathLen == 3
\* characters in a candidate URL of the matching specification
MaxUrlLen == 3
\* characters in a configured URL string of the matching specification
MaxPatLen == 2

(***************************************************************************)
(* Pointers and strings.                                                   *)
(***************************************************************************)
Nil == <<>>
Ptr(x) == <<x>>
Deref(p) == p[1]

Strings(alphabet, n) == UNION {[1..k -> alphabet] : k \in 0..n}

\* s starts with substr
Contains_PrefixOnly(s, substr) ==
    Len(substr) <= Len(s) /\ SubSeq(s, 1, Len(substr)) = substr

\* strings.Contains(s, substr): some index at which substr starts in s
Contains(s, substr) ==
    \E i \in 0..(Len(s) - Len(substr)) : SubSeq(s, i + 1, i + Len(substr)) = substr

\* strings.LastIndex(s, ch) for a one-character separator, 0-based, -1 if absent
LastIndex(s, ch) ==
    IF \E i \in 1..Len(s) : s[i] = ch
    THEN (CHOOSE i \in 1..Len(s) : s[i] = ch /\ \A j \in (i + 1)..Len(s) : s[j] # ch) - 1
    ELSE -1

RECURSIVE StripTrailingSlashes(_)
StripTrailingSlashes(p) ==
    IF Len(p) > 0 /\ p[Len(p)] = "/" THEN StripTrailingSlashes(SubSeq(p, 1, Len(p) - 1)) ELSE p

\* filepath.Base(path) on a slash-separated file system
Base(path) ==
    IF path = <<>> THEN <<".">>
    ELSE LET p == StripTrailingSlashes(path)
             i == LastIndex(p, "/")
             q == IF i >= 0 THEN SubSeq(p, i + 2, Len(p)) ELSE p
         IN  IF q = <<>> THEN <<"/">> ELSE q

(***************************************************************************)
(* Action kinds and handlers.                                              *)
(***************************************************************************)
scraperActionScript == "script"

IsValid(e) == e = scraperActionScript

NilFn == "nil"

scraperTypeConfig(c) == [Action |-> c.Action, Script |-> c.Script]

performerByNameConfig_resolveFn(c) ==
    IF c.Action = scraperActionScript
    THEN [c EXCEPT !.performScrape = "scrapePerformerNamesScript"] ELSE c

performerByFragmentConfig_resolveFn(c) ==
    IF c.Action = scraperActionScript
    THEN [c EXCEPT !.performScrape = "scrapePerformerFragmentScript"] ELSE c

scrapePerformerByURLConfig_resolveFn(c) ==
    IF c.Action = scraperActionScript
    THEN [c EXCEPT !.performScrape = "scrapePerformerURLScript"] ELSE c

sceneByFragmentConfig_resolveFn(c) ==
    IF c.Action = scraperActionScript
    THEN [c EXCEPT !.performScrape = "scrapeSceneFragmentScript"] ELSE c

\* binds the performer handler to a scene rule
scrapeSceneByURLConfig_resolveFn_PerformerHandler(c) ==
    IF c.Action = scraperActionScript
    THEN [c EXCEPT !.performScrape = "scrapePerformerURLScript"] ELSE c

scrapeSceneByURLConfig_resolveFn(c) ==
    IF c.Action = scraperActionScript
    THEN [c EXCEPT !.performScrape = "scrapeSceneURLScript"] ELSE c

\* accepts any URL once the rule has a URL string
matchesURL_IgnoresURL(c, url) == Len(c.URL) > 0

\* scrapeByURLConfig.matchesURL
matchesURL(c, url) == \E k \in 1..Len(c.URL) : Contains(url, c.URL[k])

(***************************************************************************)
(* Loading.                                                                *)
(***************************************************************************)
\* a nil element of a rule list makes the range loop call resolveFn on nil
HasNilRule(rules) == \E i \in 1..Len(rules) : rules[i] = Nil

initialiseConfigsPanics(c) == HasNilRule(c.PerformerByURL) \/ HasNilRule(c.SceneByURL)

initialiseConfigs(c) ==
    [c EXCEPT
       !.PerformerByName = IF @ # Nil THEN Ptr(performerByNameConfig_resolveFn(Deref(@))) ELSE @,
       !.PerformerByFragment =
           IF @ # Nil THEN Ptr(performerByFragmentConfig_resolveFn(Deref(@))) ELSE @,
       !.PerformerByURL =
           [i \in 1..Len(@) |-> Ptr(scrapePerformerByURLConfig_resolveFn(Deref(@[i])))],
       !.SceneByFragment = IF @ # Nil THEN Ptr(sceneByFragmentConfig_resolveFn(Deref(@))) ELSE @,
       !.SceneByURL = [i \in 1..Len(@) |-> Ptr(scrapeSceneByURLConfig_resolveFn(Deref(@[i])))]]

NoCall == [op |-> "none", input |-> Nil, outs |-> <<>>, ret |-> Nil, err |-> Nil, invoked |-> <<>>]

\* loadScraperFromYAML(path): src.exists is whether os.Open succeeds; src.body
\* is nil when the strict decoder fails and otherwise holds the pointer the
\* decoder leaves in ret, itself nil for a null document
loadScraperFromYAML(src) ==
    /\ status = "none"
    /\ source' = Ptr(src)
    /\ call' = NoCall
    /\ IF ~src.exists
       THEN /\ status' = "error" /\ loadErr' = "OpenError" /\ def' = Nil
       ELSE IF src.body = Nil
       THEN /\ status' = "error" /\ loadErr' = "DecodeError" /\ def' = Nil
       ELSE LET id == Base(src.path)
                idx == LastIndex(id, ".")
                ret == [Deref(Deref(src.body)) EXCEPT !.ID = SubSeq(id, 1, idx)]
            IN  IF idx < 0 \/ Deref(src.body) = Nil \/ initialiseConfigsPanics(ret)
                THEN /\ status' = "panic" /\ loadErr' = "none" /\ def' = Nil
                ELSE /\ status' = "ok" /\ loadErr' = "none"
                     /\ def' = Ptr(initialiseConfigs(ret))

Init ==
    /\ source = Nil
    /\ status = "none"
    /\ loadErr = "none"
    /\ def = Nil
    /\ call = NoCall

(***************************************************************************)
(* Handlers.  A handler is an external function; outs gives, for each      *)
(* handler that may be asked, what it returns if invoked: nothing, a       *)
(* result, an error, or both a result and an error.  The values returned   *)
(* by different rules' handlers are tagged with the rule so that they can  *)
(* be told apart.                                                          *)
(***************************************************************************)
OutcomeKinds == {"absent", "result", "error", "both"}

HandlerReturn(kind, tag) ==
    [ret |-> IF kind \in {"result", "both"} THEN Ptr(<<"result", tag>>) ELSE Nil,
     err |-> IF kind \in {"error", "both"} THEN Ptr(<<"error", tag>>) ELSE Nil]

Invocation(i, fn, c, input) == [rule |-> i, fn |-> fn, c |-> c, input |-> input]

(***************************************************************************)
(* Capability projection.                                                  *)
(***************************************************************************)
RECURSIVE AppendURLs(_, _)
\* the range loop appending every rule's URL strings, rules in list order
AppendURLs(urls, rules) ==
    IF rules = <<>> THEN urls
    ELSE AppendURLs(urls \o Deref(Head(rules)).URL, Tail(rules))

\* the performer ScraperSpec as built before the emptiness test
performerSpec(c) ==
    LET p1 == IF c.PerformerByName # Nil THEN <<"NAME">> ELSE <<>>
        p2 == IF c.PerformerByFragment # Nil THEN Append(p1, "FRAGMENT") ELSE p1
    IN  IF Len(c.PerformerByURL) > 0
        THEN [SupportedScrapes |-> Append(p2, "URL"), Urls |-> AppendURLs(<<>>, c.PerformerByURL)]
        ELSE [SupportedScrapes |-> p2, Urls |-> <<>>]

\* the scene ScraperSpec as built before the emptiness test
sceneSpec(c) ==
    LET s1 == IF c.SceneByFragment # Nil THEN <<"FRAGMENT">> ELSE <<>>
    IN  IF Len(c.SceneByURL) > 0
        THEN [SupportedScrapes |-> Append(s1, "URL"), Urls |-> AppendURLs(<<>>, c.SceneByURL)]
        ELSE [SupportedScrapes |-> s1, Urls |-> <<>>]

\* sets both groups without testing for supported scrapes
toScraper_NoEmptinessTest(c) ==
    [ID |-> c.ID, Name |-> c.Name,
     Performer |-> Ptr(performerSpec(c)), Scene |-> Ptr(sceneSpec(c))]

toScraper(c) ==
    [ID |-> c.ID,
     Name |-> c.Name,
     Performer |-> IF Len(performerSpec(c).SupportedScrapes) > 0
                   THEN Ptr(performerSpec(c)) ELSE Nil,
     Scene |-> IF Len(sceneSpec(c).SupportedScrapes) > 0 THEN Ptr(sceneSpec(c)) ELSE Nil]

supportsPerformers(c) ==
    c.PerformerByName # Nil \/ c.PerformerByFragment # Nil \/ Len(c.PerformerByURL) > 0

supportsScenes(c) == c.SceneByFragment # Nil \/ Len(c.SceneByURL) > 0

matchesPerformerURL(c, url) ==
    \E i \in 1..Len(c.PerformerByURL) : matchesURL(Deref(c.PerformerByURL[i]), url)

matchesSceneURL(c, url) ==
    \E i \in 1..Len(c.SceneByURL) : matchesURL(Deref(c.SceneByURL[i]), url)

(***************************************************************************)
(* Dispatch.  Each operator gives what the function returns and the        *)
(* handler invocations it made, in order.                                  *)
(***************************************************************************)
Returned(ret, err, invoked) == [ret |-> ret, err |-> err, invoked |-> invoked]

ScrapePerformerNames(c, name, outs) ==
    IF c.PerformerByName # Nil /\ Deref(c.PerformerByName).performScrape # NilFn
    THEN LET r == HandlerReturn(outs[1], 0)
         IN  Returned(r.ret, r.err,
                      <<Invocation(0, Deref(c.PerformerByName).performScrape,
                                   scraperTypeConfig(Deref(c.PerformerByName)), name)>>)
    ELSE Returned(Nil, Nil, <<>>)

\* tests and calls the by-name block
ScrapePerformer_ByNameBlock(c, scrapedPerformer, outs) ==
    IF c.PerformerByName # Nil /\ Deref(c.PerformerByName).performScrape # NilFn
    THEN LET r == HandlerReturn(outs[1], 0)
         IN  Returned(r.ret, r.err,
                      <<Invocation(0, Deref(c.PerformerByName).performScrape,
                                   scraperTypeConfig(Deref(c.PerformerByName)),
                                   scrapedPerformer)>>)
    ELSE Returned(Nil, Nil, <<>>)

ScrapePerformer(c, scrapedPerformer, outs) ==
    IF c.PerformerByFragment # Nil /\ Deref(c.PerformerByFragment).performScrape # NilFn
    THEN LET r == HandlerReturn(outs[1], 0)
         IN  Returned(r.ret, r.err,
                      <<Invocation(0, Deref(c.PerformerByFragment).performScrape,
                                   scraperTypeConfig(Deref(c.PerformerByFragment)),
                                   scrapedPerformer)>>)
    ELSE Returned(Nil, Nil, <<>>)

ScrapeScene(c, scene, outs) ==
    IF c.SceneByFragment # Nil /\ Deref(c.SceneByFragment).performScrape # NilFn
    THEN LET r == HandlerReturn(outs[1], 0)
         IN  Returned(r.ret, r.err,
                      <<Invocation(0, Deref(c.SceneByFragment).performScrape,
                                   scraperTypeConfig(Deref(c.SceneByFragment)), scene)>>)
    ELSE Returned(Nil, Nil, <<>>)

RECURSIVE ScrapePerformerURLFrom(_, _, _, _, _)
\* the range loop of ScrapePerformerURL from rule i on
ScrapePerformerURLFrom(c, url, outs, i, invoked) ==
    IF i > Len(c.PerformerByURL) THEN Returned(Nil, Nil, invoked)
    ELSE LET scraper == Deref(c.PerformerByURL[i])
         IN  IF matchesURL(scraper, url) /\ scraper.performScrape # NilFn
             THEN LET r == HandlerReturn(outs[i], i)
                      inv == Append(invoked, Invocation(i, scraper.performScrape,
                                                        scraperTypeConfig(scraper), url))
                  IN  IF r.err # Nil THEN Returned(Nil, r.err, inv)
                      ELSE IF r.ret # Nil THEN Returned(r.ret, Nil, inv)
                      ELSE ScrapePerformerURLFrom(c, url, outs, i + 1, inv)
             ELSE ScrapePerformerURLFrom(c, url, outs, i + 1, invoked)

\* goes on to the next rule when a handler returns an error
ScrapePerformerURL_SkipsErrors(c, url, outs) ==
    ScrapePerformerURLFrom(c, url,
        [i \in DOMAIN outs |-> CASE outs[i] = "error" -> "absent"
                                 [] outs[i] = "both" -> "result"
                                 [] OTHER -> outs[i]],
        1, <<>>)

ScrapePerformerURL(c, url, outs) == ScrapePerformerURLFrom(c, url, outs, 1, <<>>)

RECURSIVE ScrapeSceneURLFrom(_, _, _, _, _)
\* the range loop of ScrapeSceneURL from rule i on
ScrapeSceneURLFrom(c, url, outs, i, invoked) ==
    IF i > Len(c.SceneByURL) THEN Returned(Nil, Nil, invoked)
    ELSE LET scraper == Deref(c.SceneByURL[i])
         IN  IF matchesURL(scraper, url) /\ scraper.performScrape # NilFn
             THEN LET r == HandlerReturn(outs[i], i)
                      inv == Append(invoked, Invocation(i, scraper.performScrape,
                                                        scraperTypeConfig(scraper), url))
                  IN  IF r.err # Nil THEN Returned(Nil, r.err, inv)
                      ELSE IF r.ret # Nil THEN Returned(r.ret, Nil, inv)
                      ELSE ScrapeSceneURLFrom(c, url, outs, i + 1, inv)
             ELSE ScrapeSceneURLFrom(c, url, outs, i + 1, invoked)

\* returns what the first invoked handler returned, a result or not
ScrapeSceneURL_ReturnsFirstAnswer(c, url, outs) ==
    LET r == ScrapeSceneURLFrom(c, url, outs, 1, <<>>)
    IN  IF Len(r.invoked) > 1 THEN Returned(Nil, Nil, <<r.invoked[1]>>) ELSE r

ScrapeSceneURL(c, url, outs) == ScrapeSceneURLFrom(c, url, outs, 1, <<>>)

(***************************************************************************)
(* The sources examined.                                                   *)
(***************************************************************************)
\* operation blocks as the decoder leaves them, no handler bound yet: two
\* script blocks, a block of an unrecognised action and an empty block
OpConfigs ==
    {[Action |-> scraperActionScript, Script |-> <<"a.py">>, performScrape |-> NilFn],
     [Action |-> scraperActionScript, Script |-> <<"b.py">>, performScrape |-> NilFn],
     [Action |-> "xpath", Script |-> <<"a.py">>, performScrape |-> NilFn],
     [Action |-> "", Script |-> <<>>, performScrape |-> NilFn]}

\* URL rules: the rule for site a runs a.py, the rule for site b runs b.py
URLRules ==
    {[Action |-> a, Script |-> <<x \o ".py">>, URL |-> << <<x>> >>, performScrape |-> NilFn] :
        a \in {scraperActionScript, "xpath"}, x \in {"a", "b"}}

ExamplePath == <<"m", "y", "s", "i", "t", "e", ".", "y", "m", "l">>

EmptyBody ==
    [ID |-> <<>>, Name |-> "My Site", PerformerByName |-> Nil, PerformerByFragment |-> Nil,
     PerformerByURL |-> <<>>, SceneByFragment |-> Nil, SceneByURL |-> <<>>]

\* how many operation configs go to each of the five fields
Splits ==
    {s \in [1..5 -> 0..MaxOps] :
        s[1] <= 1 /\ s[2] <= 1 /\ s[4] <= 1 /\ s[1] + s[2] + s[3] + s[4] + s[5] <= MaxOps}

OptConfig(k) == IF k = 0 THEN {Nil} ELSE {Ptr(c) : c \in OpConfigs}
RuleList(k) == [1..k -> {Ptr(r) : r \in URLRules}]

Bodies ==
    UNION {{[ID |-> <<>>, Name |-> "My Site", PerformerByName |-> pn,
             PerformerByFragment |-> pf, PerformerByURL |-> pu,
             SceneByFragment |-> sf, SceneByURL |-> su] :
               pn \in OptConfig(s[1]), pf \in OptConfig(s[2]), pu \in RuleList(s[3]),
               sf \in OptConfig(s[4]), su \in RuleList(s[5])} : s \in Splits}

\* bodies whose rule lists hold a null element
NullRuleBodies ==
    {[EmptyBody EXCEPT !.PerformerByURL = l] : l \in {<<Nil>>} \cup {<<Ptr(r), Nil>> : r \in URLRules}}
    \cup {[EmptyBody EXCEPT !.SceneByURL = <<Nil>>]}

PathChars == {"s", ".", "/"}

\* a path that can name a regular file: the body of anything else cannot be read
IsFilePath(p) == p # <<>> /\ p[Len(p)] # "/" /\ Base(p) \notin {<<".">>, <<".", ".">>}

Sources ==
    {[path |-> ExamplePath, exists |-> TRUE, body |-> Ptr(Ptr(b))] : b \in Bodies \cup NullRuleBodies}
    \cup {[path |-> ExamplePath, exists |-> TRUE, body |-> Ptr(Nil)]}
    \cup {[path |-> p, exists |-> TRUE,
           body |-> IF IsFilePath(p) THEN Ptr(Ptr(EmptyBody)) ELSE Nil] :
            p \in Strings(PathChars, MaxPathLen)}
    \cup {[path |-> ExamplePath, exists |-> e, body |-> Nil] : e \in BOOLEAN}

Names == {"alice", "bob"}
PerformerInputs == {"performer1", "performer2"}
SceneInputs == {"scene1", "scene2"}
URLs == {<<>>, <<"a">>, <<"a", "b">>}

(***************************************************************************)
(* Actions.  A call is made on a loaded definition and leaves its answer   *)
(* in call until the caller takes it.                                      *)
(***************************************************************************)
Load == \E src \in Sources : loadScraperFromYAML(src)

Ready == status = "ok" /\ call.op = "none"

Answer(op, input, outs, r) ==
    [op |-> op, input |-> input, outs |-> outs, ret |-> r.ret, err |-> r.err,
     invoked |-> r.invoked]

Value(op, input, v) == Answer(op, input, <<>>, Returned(Ptr(v), Nil, <<>>))

CallToScraper ==
    /\ Ready
    /\ call' = Value("toScraper", Nil, toScraper(Deref(def)))
    /\ UNCHANGED <<source, status, loadErr, def>>

CallSupportsPerformers ==
    /\ Ready
    /\ call' = Value("supportsPerformers", Nil, supportsPerformers(Deref(def)))
    /\ UNCHANGED <<source, status, loadErr, def>>

CallSupportsScenes ==
    /\ Ready
    /\ call' = Value("supportsScenes", Nil, supportsScenes(Deref(def)))
    /\ UNCHANGED <<source, status, loadErr, def>>

CallMatchesPerformerURL(url) ==
    /\ Ready
    /\ call' = Value("matchesPerformerURL", url, matchesPerformerURL(Deref(def), url))
    /\ UNCHANGED <<source, status, loadErr, def>>

CallMatchesSceneURL(url) ==
    /\ Ready
    /\ call' = Value("matchesSceneURL", url, matchesSceneURL(Deref(def), url))
    /\ UNCHANGED <<source, status, loadErr, def>>

CallScrapePerformerNames(name, outs) ==
    /\ Ready
    /\ call' = Answer("ScrapePerformerNames", name, outs,
                      ScrapePerformerNames(Deref(def), name, outs))
    /\ UNCHANGED <<source, status, loadErr, def>>

CallScrapePerformer(scrapedPerformer, outs) ==
    /\ Ready
    /\ call' = Answer("ScrapePerformer", scrapedPerformer, outs,
                      ScrapePerformer(Deref(def), scrapedPerformer, outs))
    /\ UNCHANGED <<source, status, loadErr, def>>

CallScrapeScene(scene, outs) ==
    /\ Ready
    /\ call' = Answer("ScrapeScene", scene, outs, ScrapeScene(Deref(def), scene, outs))
    /\ UNCHANGED <<source, status, loadErr, def>>

\* drops the first rule from the definition once it has been tried
CallScrapePerformerURL_DropsRule(url, outs) ==
    /\ Ready
    /\ call' = Answer("ScrapePerformerURL", url, outs,
                      ScrapePerformerURL(Deref(def), url, outs))
    /\ def' = Ptr([Deref(def) EXCEPT !.PerformerByURL = IF @ = <<>> THEN @ ELSE Tail(@)])
    /\ UNCHANGED <<source, status, loadErr>>

CallScrapePerformerURL(url, outs) ==
    /\ Ready
    /\ call' = Answer("ScrapePerformerURL", url, outs,
                      ScrapePerformerURL(Deref(def), url, outs))
    /\ UNCHANGED <<source, status, loadErr, def>>

CallScrapeSceneURL(url, outs) ==
    /\ Ready
    /\ call' = Answer("ScrapeSceneURL", url, outs, ScrapeSceneURL(Deref(def), url, outs))
    /\ UNCHANGED <<source, status, loadErr, def>>

\* the caller takes the answer
Return ==
    /\ call.op # "none"
    /\ call' = NoCall
    /\ UNCHANGED <<source, status, loadErr, def>>

Project == CallToScraper \/ CallSupportsPerformers \/ CallSupportsScenes

Match(urls) == \E url \in urls : CallMatchesPerformerURL(url) \/ CallMatchesSceneURL(url)

DispatchSingle ==
    \E outs \in [1..1 -> OutcomeKinds] :
        \/ \E name \in Names : CallScrapePerformerNames(name, outs)
        \/ \E p \in PerformerInputs : CallScrapePerformer(p, outs)
        \/ \E s \in SceneInputs : CallScrapeScene(s, outs)

DispatchURL ==
    /\ Ready
    /\ \E url \in URLs :
          \/ \E outs \in [1..Len(Deref(def).PerformerByURL) -> OutcomeKinds] :
                CallScrapePerformerURL(url, outs)
          \/ \E outs \in [1..Len(Deref(def).SceneByURL) -> OutcomeKinds] :
                CallScrapeSceneURL(url, outs)

Next == Load \/ Project \/ Match(URLs) \/ DispatchSingle \/ DispatchURL \/ Return

Spec == Init /\ [][Next]_vars

(***************************************************************************)
(* The matching specification: definitions whose rule lists hold URL       *)
(* strings of every shape up to MaxPatLen, asked about every candidate up  *)
(* to MaxUrlLen.  Upper and lower case of one letter make up the alphabet. *)
(***************************************************************************)
Chars == {"a", "A"}
Patterns == Strings(Chars, MaxPatLen)

MatchRule(action, urls) ==
    Ptr([Action |-> action, Script |-> <<"a.py">>, URL |-> urls, performScrape |-> NilFn])

\* no rule; one rule of one or two URL strings; two rules, one bound and one
\* not; a rule without URL strings before a rule with one
MatchLists ==
    {<<>>}
    \cup {<<MatchRule(a, <<p>>)>> : a \in {scraperActionScript, "xpath"}, p \in Patterns}
    \cup {<<MatchRule(scraperActionScript, <<p, q>>)>> : p \in Patterns, q \in Patterns}
    \cup {<<MatchRule(a, <<p>>), MatchRule(b, <<q>>)>> :
            a \in {scraperActionScript}, b \in {"xpath"}, p \in Patterns, q \in Patterns}
    \cup {<<MatchRule(a, <<p>>), MatchRule(b, <<q>>)>> :
            a \in {"xpath"}, b \in {scraperActionScript}, p \in Patterns, q \in Patterns}
    \cup {<<MatchRule(scraperActionScript, <<>>), MatchRule(scraperActionScript, <<p>>)>> :
            p \in Patterns}

MatchSources ==
    {[path |-> ExamplePath, exists |-> TRUE, body |-> Ptr(Ptr([EmptyBody EXCEPT !.PerformerByURL = l]))] :
        l \in MatchLists}
    \cup {[path |-> ExamplePath, exists |-> TRUE, body |-> Ptr(Ptr([EmptyBody EXCEPT !.SceneByURL = l]))] :
            l \in MatchLists}

LoadMatch == \E src \in MatchSources : loadScraperFromYAML(src)

NextMatch == LoadMatch \/ Match(Strings(Chars, MaxUrlLen)) \/ Return

SpecMatch == Init /\ [][NextMatch]_vars

(***************************************************************************)
(* Vocabulary of the properties, stated apart from the operators above.    *)
(***************************************************************************)
Loaded == Deref(def)

LoadedFrom == Deref(source)

\* sub is a contiguous slice of s, compared character by character
Occurs(sub, s) == \E i \in 0..Len(s), j \in 0..Len(s) : i <= j /\ SubSeq(s, i + 1, j) = sub

Accepts(rule, url) == \E k \in DOMAIN rule.URL : Occurs(rule.URL[k], url)

Bound(config) == config.performScrape # NilFn

URLDispatch == call.op \in {"ScrapePerformerURL", "ScrapeSceneURL"}

\* the rule list a URL call works on
RulesOf(op) ==
    IF op \in {"ScrapePerformerURL", "matchesPerformerURL"}
    THEN Loaded.PerformerByURL ELSE Loaded.SceneByURL

\* the rules that accept the dispatched URL and have a handler
Eligible == {i \in DOMAIN RulesOf(call.op) :
               Accepts(Deref(RulesOf(call.op)[i]), call.input) /\ Bound(Deref(RulesOf(call.op)[i]))}

\* the eligible rules whose handler yields something, a result or an error
Hits == {i \in Eligible : call.outs[i] # "absent"}

Least(S) == CHOOSE x \in S : \A y \in S : x <= y

InOrder(S) == CHOOSE f \in [1..Cardinality(S) -> S] : \A a, b \in 1..Cardinality(S) : a < b => f[a] < f[b]

InvokedRules == {call.invoked[j].rule : j \in DOMAIN call.invoked}

\* C1: a URL dispatch in which no invoked handler returns an error returns the
\* result of the first rule, in declaration order, that matches the URL, has a
\* handler and whose handler yields a result; with no such rule it returns
\* nothing and no error
C1_FirstResultWins ==
    URLDispatch =>
        /\ Hits = {} => call.ret = Nil /\ call.err = Nil
        /\ (Hits # {} /\ call.outs[Least(Hits)] = "result") =>
              call.ret = Ptr(<<"result", Least(Hits)>>) /\ call.err = Nil

C1_Witness ==
    /\ call.op = "ScrapeSceneURL"
    /\ Eligible = {1, 2}
    /\ call.outs = <<"absent", "result">>
    /\ call.ret = Ptr(<<"result", 2>>)

\* C2: when the handler of a matching rule returns an error, the URL dispatch
\* returns exactly that error and no result, and invokes no later rule's handler
C2_ErrorAborts ==
    (URLDispatch /\ Hits # {} /\ call.outs[Least(Hits)] \in {"error", "both"}) =>
        /\ call.err = Ptr(<<"error", Least(Hits)>>)
        /\ call.ret = Nil
        /\ \A i \in InvokedRules : i <= Least(Hits)

C2_Witness ==
    /\ call.op = "ScrapePerformerURL"
    /\ Eligible = {1, 2}
    /\ call.outs = <<"both", "result">>
    /\ call.err = Ptr(<<"error", 1>>)
    /\ call.ret = Nil
    /\ InvokedRules = {1}

\* C3: matchesPerformerURL / matchesSceneURL answer true exactly when some rule
\* of the list has some URL string occurring in the candidate as a contiguous,
\* case-sensitive slice, whether or not the rule's handler is bound; a list
\* without rules or without URL strings never matches
C3_MatchIffSubstring ==
    call.op \in {"matchesPerformerURL", "matchesSceneURL"} =>
        /\ Deref(call.ret) =
              (\E i \in DOMAIN RulesOf(call.op) : Accepts(Deref(RulesOf(call.op)[i]), call.input))
        /\ (\A i \in DOMAIN RulesOf(call.op) : Deref(RulesOf(call.op)[i]).URL = <<>>) =>
              Deref(call.ret) = FALSE

C3_Witness ==
    /\ call.op = "matchesPerformerURL"
    /\ call.input = <<"A", "a", "A">>
    /\ Len(Loaded.PerformerByURL) = 2
    /\ ~Bound(Deref(Loaded.PerformerByURL[2]))
    /\ Deref(Loaded.PerformerByURL[1]).URL = << <<"a", "a">> >>
    /\ Deref(Loaded.PerformerByURL[2]).URL = << <<"a", "A">> >>
    /\ Deref(call.ret) = TRUE

\* the populated block a by-name or by-fragment call works on, nil if unpopulated
BlockOf(op) ==
    CASE op = "ScrapePerformerNames" -> Loaded.PerformerByName
      [] op = "ScrapePerformer" -> Loaded.PerformerByFragment
      [] op = "ScrapeScene" -> Loaded.SceneByFragment

SingleDispatch == call.op \in {"ScrapePerformerNames", "ScrapePerformer", "ScrapeScene"}

\* C4: a by-name or by-fragment dispatch whose block is populated and bound
\* invokes that block's handler once, with the block's own type config and the
\* caller's input, and returns its result and error as they are; otherwise it
\* returns nothing, no error, and invokes no handler
C4_SingleDispatch ==
    SingleDispatch =>
        IF BlockOf(call.op) # Nil /\ Bound(Deref(BlockOf(call.op)))
        THEN /\ call.invoked =
                   <<[rule |-> 0,
                      fn |-> Deref(BlockOf(call.op)).performScrape,
                      c |-> [Action |-> Deref(BlockOf(call.op)).Action,
                             Script |-> Deref(BlockOf(call.op)).Script],
                      input |-> call.input]>>
             /\ call.ret = (IF call.outs[1] \in {"result", "both"} THEN Ptr(<<"result", 0>>) ELSE Nil)
             /\ call.err = (IF call.outs[1] \in {"error", "both"} THEN Ptr(<<"error", 0>>) ELSE Nil)
        ELSE call.invoked = <<>> /\ call.ret = Nil /\ call.err = Nil

C4_Witness ==
    /\ call.op = "ScrapePerformer"
    /\ Loaded.PerformerByName # Nil
    /\ Bound(Deref(Loaded.PerformerByName))
    /\ Loaded.PerformerByFragment # Nil
    /\ Bound(Deref(Loaded.PerformerByFragment))
    /\ Deref(Loaded.PerformerByName).Script # Deref(Loaded.PerformerByFragment).Script
    /\ call.outs = <<"error">>
    /\ call.err = Ptr(<<"error", 0>>)
    /\ Len(call.invoked) = 1

Modes(group) == IF group = Nil THEN {} ELSE {Deref(group).SupportedScrapes[i] : i \in DOMAIN Deref(group).SupportedScrapes}

\* C5: the projected performer modes hold by-name, by-fragment and by-url exactly
\* when performerByName, performerByFragment are populated and performerByURL is
\* non-empty; the scene modes likewise for fragment and url and never by-name;
\* a group is present exactly when its mode set is non-empty
C5_Projection ==
    call.op = "toScraper" =>
        LET d == Deref(call.ret) IN
        /\ ("NAME" \in Modes(d.Performer)) = (Loaded.PerformerByName # Nil)
        /\ ("FRAGMENT" \in Modes(d.Performer)) = (Loaded.PerformerByFragment # Nil)
        /\ ("URL" \in Modes(d.Performer)) = (Loaded.PerformerByURL # <<>>)
        /\ ("FRAGMENT" \in Modes(d.Scene)) = (Loaded.SceneByFragment # Nil)
        /\ ("URL" \in Modes(d.Scene)) = (Loaded.SceneByURL # <<>>)
        /\ Modes(d.Performer) \subseteq {"NAME", "FRAGMENT", "URL"}
        /\ Modes(d.Scene) \subseteq {"FRAGMENT", "URL"}
        /\ (d.Performer # Nil) = (Modes(d.Performer) # {})
        /\ (d.Scene # Nil) = (Modes(d.Scene) # {})
        /\ (d.Performer # Nil) =
              (Loaded.PerformerByName # Nil \/ Loaded.PerformerByFragment # Nil
                 \/ Loaded.PerformerByURL # <<>>)
        /\ (d.Scene # Nil) = (Loaded.SceneByFragment # Nil \/ Loaded.SceneByURL # <<>>)

C5_Witness ==
    /\ call.op = "toScraper"
    /\ Loaded.PerformerByName # Nil
    /\ Loaded.PerformerByFragment = Nil
    /\ Loaded.PerformerByURL = <<>>
    /\ Loaded.SceneByFragment = Nil
    /\ Loaded.SceneByURL = <<>>
    /\ Deref(call.ret).Scene = Nil
    /\ Modes(Deref(call.ret).Performer) = {"NAME"}

HasDot(name) == \E i \in DOMAIN name : name[i] = "."

\* name up to, and excluding, its last "."
Stem(name) == CHOOSE p \in {SubSeq(name, 1, k) : k \in 0..Len(name)} :
                 \E rest \in {SubSeq(name, k, Len(name)) : k \in 1..(Len(name) + 1)} :
                    /\ name = p \o <<".">> \o rest
                    /\ ~HasDot(rest)

\* the final path element: what follows the last "/" of a path naming a file
FileName(path) == CHOOSE n \in {SubSeq(path, k, Len(path)) : k \in 1..Len(path)} :
                     /\ \A i \in DOMAIN n : n[i] # "/"
                     /\ \E dir \in {SubSeq(path, 1, k) : k \in 0..Len(path)} :
                           path = dir \o n /\ (dir = <<>> \/ dir[Len(dir)] = "/")

Decodable == status # "none" /\ LoadedFrom.exists /\ LoadedFrom.body # Nil

\* C6: a source with a decodable body either loads with the id its file name has
\* before the last ".", or, the file name having no ".", fails with a ConfigError
\* and no definition; the load never ends abnormally
C6_IdOrConfigError ==
    Decodable =>
        IF HasDot(FileName(LoadedFrom.path))
        THEN status = "ok" /\ Loaded.ID = Stem(FileName(LoadedFrom.path))
        ELSE status = "error" /\ loadErr = "ConfigError" /\ def = Nil

\* every operation config of a definition, single blocks and URL rules alike
ConfigsOf(c) ==
    {Deref(b) : b \in {c.PerformerByName, c.PerformerByFragment, c.SceneByFragment} \ {Nil}}
    \cup {[Action |-> Deref(c.PerformerByURL[i]).Action,
           Script |-> Deref(c.PerformerByURL[i]).Script,
           performScrape |-> Deref(c.PerformerByURL[i]).performScrape] : i \in DOMAIN c.PerformerByURL}
    \cup {[Action |-> Deref(c.SceneByURL[i]).Action,
           Script |-> Deref(c.SceneByURL[i]).Script,
           performScrape |-> Deref(c.SceneByURL[i]).performScrape] : i \in DOMAIN c.SceneByURL}

\* C7: no definition that load returns holds an operation config whose action
\* tag is other than "script"
C7_UnrecognisedActionRejected ==
    status = "ok" => \A config \in ConfigsOf(Loaded) : config.Action = "script"

\* bound exactly when the action is "script", and then to the given handler
ResolvedTo(config, handler) ==
    config.performScrape = (IF config.Action = "script" THEN handler ELSE NilFn)

\* C8: after the resolution pass every populated operation config, URL rules
\* included, has a handler exactly when its action is "script", and it is the
\* script handler of the config's own shape; a URL rule that matches but has no
\* handler is not invoked and raises no error, and dispatch goes on to the later
\* rules
C8_BoundIffScript ==
    status = "ok" =>
        /\ Loaded.PerformerByName # Nil =>
              ResolvedTo(Deref(Loaded.PerformerByName), "scrapePerformerNamesScript")
        /\ Loaded.PerformerByFragment # Nil =>
              ResolvedTo(Deref(Loaded.PerformerByFragment), "scrapePerformerFragmentScript")
        /\ \A i \in DOMAIN Loaded.PerformerByURL :
              ResolvedTo(Deref(Loaded.PerformerByURL[i]), "scrapePerformerURLScript")
        /\ Loaded.SceneByFragment # Nil =>
              ResolvedTo(Deref(Loaded.SceneByFragment), "scrapeSceneFragmentScript")
        /\ \A i \in DOMAIN Loaded.SceneByURL :
              ResolvedTo(Deref(Loaded.SceneByURL[i]), "scrapeSceneURLScript")
        /\ URLDispatch =>
              \A i \in DOMAIN RulesOf(call.op) :
                 (Accepts(Deref(RulesOf(call.op)[i]), call.input)
                    /\ ~Bound(Deref(RulesOf(call.op)[i]))) =>
                    /\ i \notin InvokedRules
                    /\ call.err # Ptr(<<"error", i>>)
                    /\ \A j \in Eligible :
                          (j > i /\ \A k \in Eligible : k < j => call.outs[k] = "absent") =>
                             j \in InvokedRules

C8_Witness ==
    /\ call.op = "ScrapePerformerURL"
    /\ Len(Loaded.PerformerByURL) = 2
    /\ Deref(Loaded.PerformerByURL[1]).Action = "xpath"
    /\ Accepts(Deref(Loaded.PerformerByURL[1]), call.input)
    /\ Eligible = {2}
    /\ InvokedRules = {2}
    /\ call.outs = <<"result", "result">>
    /\ call.ret = Ptr(<<"result", 2>>)

\* C9: the handler invocations of one URL dispatch are the rules that match the
\* URL and have a handler, in declaration order, each once, with the rule's own
\* handler and type config and the dispatched URL, up to and including the
\* first whose handler yields a result or an error
C9_InvocationSequence ==
    URLDispatch =>
        LET rules == RulesOf(call.op)
            order == InOrder(Eligible)
            n == Len(call.invoked)
        IN  /\ n <= Cardinality(Eligible)
            /\ \A j \in 1..n :
                  call.invoked[j] =
                     [rule |-> order[j],
                      fn |-> Deref(rules[order[j]]).performScrape,
                      c |-> [Action |-> Deref(rules[order[j]]).Action,
                             Script |-> Deref(rules[order[j]]).Script],
                      input |-> call.input]
            /\ \A j \in 1..(n - 1) : call.outs[order[j]] = "absent"
            /\ n < Cardinality(Eligible) => (n >= 1 /\ call.outs[order[n]] # "absent")

C9_Witness ==
    /\ call.op = "ScrapeSceneURL"
    /\ Eligible = {1, 2}
    /\ Deref(Loaded.SceneByURL[1]).Script # Deref(Loaded.SceneByURL[2]).Script
    /\ call.outs = <<"absent", "error">>
    /\ Len(call.invoked) = 2
    /\ call.invoked[1].rule = 1
    /\ call.invoked[2].rule = 2

\* what a call gives on definition c
AnswerOn(c, op, input, outs) ==
    CASE op = "toScraper" -> Value(op, input, toScraper(c))
      [] op = "supportsPerformers" -> Value(op, input, supportsPerformers(c))
      [] op = "supportsScenes" -> Value(op, input, supportsScenes(c))
      [] op = "matchesPerformerURL" -> Value(op, input, matchesPerformerURL(c, input))
      [] op = "matchesSceneURL" -> Value(op, input, matchesSceneURL(c, input))
      [] op = "ScrapePerformerNames" -> Answer(op, input, outs, ScrapePerformerNames(c, input, outs))
      [] op = "ScrapePerformer" -> Answer(op, input, outs, ScrapePerformer(c, input, outs))
      [] op = "ScrapeScene" -> Answer(op, input, outs, ScrapeScene(c, input, outs))
      [] op = "ScrapePerformerURL" -> Answer(op, input, outs, ScrapePerformerURL(c, input, outs))
      [] op = "ScrapeSceneURL" -> Answer(op, input, outs, ScrapeSceneURL(c, input, outs))

\* C10: once load has returned a definition, no call changes it, and the call
\* just answered, made again on the definition as it now is with the handlers
\* answering alike, gives the same answer
C10_DefinitionUnchanged ==
    [][status = "ok" =>
         /\ status' = "ok"
         /\ def' = def
         /\ call'.op # "none" =>
               call' = AnswerOn(Deref(def'), call'.op, call'.input, call'.outs)]_vars

\* a dispatch has invoked a handler and the definition is still the one the
\* loader made of the source
C10_Witness ==
    /\ status = "ok"
    /\ URLDispatch
    /\ Len(call.invoked) = 2
    /\ def = Ptr(initialiseConfigs([Deref(Deref(LoadedFrom.body)) EXCEPT !.ID = Stem(FileName(LoadedFrom.path))]))

====
